---- MODULE Spec2Model ----
(***************************************************************************)
(* A model of the deepstream neo4j storage connector: the data transform   *)
(* (transform-data.js), the key segmenter, the query synthesizer and the   *)
(* connector's get/set/delete and ready/error lifecycle (connector.js).    *)
(***************************************************************************)
EXTENDS Integers, Sequences, FiniteSets, TLC

VARIABLES
    tKind,        \* SpecTransform: what tTrace[1] is, "external" or "storage"
    tTrace,       \* SpecTransform: the input followed by the successive transform results
    sKey,         \* SpecSegments: the key handed to _getSegments
    sOut,         \* SpecSegments: what _getSegments returned
    impl,         \* which connector source is loaded: "part_003" or "connector.js"
    options,      \* the argument of the constructor
    ctor,         \* "none" (not yet called), "threw" or "done"
    isReady,      \* this.isReady
    defaultLabel, \* this._defaultLabel
    splitChar,    \* this._splitChar
    db,           \* this._db: TRUE once neo4j.driver() has been called
    probe,        \* the promise of the 'return 1' probe and its handlers
    emitted,      \* the events emitted so far, in order
    graph,        \* the engine's graph: the entities, by <<label, id>>
    debris,       \* the engine's graph: the nodes no entity node is attached to any more
    call,         \* the set, get or delete call in flight
    lastDone,     \* the call that finished last
    chain         \* what the caller has done last: a set, or a set and a delete

transformVars == <<tKind, tTrace>>
segmentVars == <<sKey, sOut>>
connectorVars == <<impl, options, ctor, isReady, defaultLabel, splitChar, db, probe, emitted>>
opVars == <<graph, debris, call, lastDone, chain>>
vars == <<transformVars, segmentVars, connectorVars, opVars>>

-----------------------------------------------------------------------------
(* JavaScript values. Every value carries its type tag, so that values of    *)
(* different types can be compared (deep equality is TLA+ equality). An      *)
(* object is a function from its own keys to values: a key that is present   *)
(* with the value undefined differs from an absent key, as it does for       *)
(* Object.keys and for chai's deep equality.                                 *)

Undefined == [t |-> "undefined"]
Null == [t |-> "null"]
Num(n) == [t |-> "number", n |-> n]
Str(s) == [t |-> "string", s |-> s]
\* a string whose characters matter (keys, segments, separators), as the
\* sequence of its characters
Text(cs) == [t |-> "string", cs |-> cs]
Obj(f) == [t |-> "object", o |-> f]
Arr(s) == [t |-> "array", a |-> s]
Thrown(e) == [t |-> "throw", e |-> e]

NoKeys == [k \in {} |-> Undefined]
EmptyObj == Obj(NoKeys)

IsThrown(x) == x.t = "throw"

\* ToBoolean
Truthy(x) ==
    CASE x.t \in {"undefined", "null"} -> FALSE
      [] x.t = "number" -> x.n # 0
      [] x.t = "string" -> IF "cs" \in DOMAIN x THEN x.cs # <<>> ELSE x.s # ""
      [] OTHER -> TRUE

\* x[k] as an expression: a TypeError on undefined and null
Prop(x, k) ==
    CASE x.t \in {"undefined", "null"} -> Thrown("TypeError")
      [] x.t = "object" -> IF k \in DOMAIN x.o THEN x.o[k] ELSE Undefined
      [] OTHER -> Undefined

\* delete x[k]
Del(x, k) ==
    IF x.t = "object" THEN Obj([j \in DOMAIN x.o \ {k} |-> x.o[j]]) ELSE x

\* x[k] = v in strict mode: a TypeError on undefined, null and primitives
SetProp(x, k, v) ==
    IF x.t = "object"
    THEN Obj([j \in DOMAIN x.o \cup {k} |-> IF j = k THEN v ELSE x.o[j]])
    ELSE Thrown("TypeError")

\* JSON.parse( JSON.stringify( x ) ): keys holding undefined are dropped,
\* undefined array elements become null, and JSON.parse( undefined ) throws
RECURSIVE JsonNested(_)
JsonNested(x) ==
    CASE x.t = "object" ->
           Obj([k \in {j \in DOMAIN x.o : x.o[j].t # "undefined"} |-> JsonNested(x.o[k])])
      [] x.t = "array" ->
           Arr([i \in 1..Len(x.a) |->
                  IF x.a[i].t = "undefined" THEN Null ELSE JsonNested(x.a[i])])
      [] OTHER -> x

JsonClone(x) == IF x.t = "undefined" THEN Thrown("SyntaxError") ELSE JsonNested(x)

-----------------------------------------------------------------------------
(* transform-data.js                                                         *)

ForStorageObject(data, value) ==
    LET rels == Prop(data, "_rels") IN
    IF IsThrown(rels) THEN rels
    ELSE Obj([k \in {"_props", "_rels", "__ds"} |->
                CASE k = "_props" -> Del(data, "_rels")
                  [] k = "_rels" -> rels
                  [] OTHER -> value])

transformValueForStorage(value0) ==
    LET value == JsonClone(value0) IN
    IF IsThrown(value) THEN value
    ELSE LET data == Prop(value, "_d")
             rest == Del(value, "_d") IN
         IF IsThrown(data) THEN data
         ELSE IF data.t = "array"
              THEN Obj([k \in {"__dsList", "__ds"} |->
                          IF k = "__dsList" THEN data ELSE rest])
              ELSE ForStorageObject(data, rest)

FromStorageObject(data, value) ==
    LET props == Prop(value, "_props")
        d == IF Truthy(props) THEN SetProp(props, "_rels", Prop(value, "_rels"))
             ELSE props IN
    IF IsThrown(SetProp(data, "_d", props)) THEN SetProp(data, "_d", props)
    ELSE IF IsThrown(d) THEN d
    ELSE SetProp(data, "_d", d)

transformValueFromStorage(value0) ==
    LET value == JsonClone(value0) IN
    IF IsThrown(value) THEN value
    ELSE IF ~Truthy(value) THEN Undefined
    ELSE LET data == Prop(value, "__ds")
             rest == Del(value, "__ds") IN
         IF Prop(rest, "__dsList").t = "array"
         THEN SetProp(data, "_d", Prop(rest, "__dsList"))
         ELSE FromStorageObject(data, rest)

-----------------------------------------------------------------------------
(* Strings of characters                                                     *)

UpperMap ==
    [a |-> "A", b |-> "B", c |-> "C", d |-> "D", e |-> "E", f |-> "F", g |-> "G",
     h |-> "H", i |-> "I", j |-> "J", k |-> "K", l |-> "L", m |-> "M", n |-> "N",
     o |-> "O", p |-> "P", q |-> "Q", r |-> "R", s |-> "S", t |-> "T", u |-> "U",
     v |-> "V", w |-> "W", x |-> "X", y |-> "Y", z |-> "Z"]

\* String.prototype.toUpperCase, on a sequence of characters
toUpperCase(cs) ==
    [i \in 1..Len(cs) |-> IF cs[i] \in DOMAIN UpperMap THEN UpperMap[cs[i]] ELSE cs[i]]

\* String.prototype.split with a non-empty string separator
RECURSIVE SplitFrom(_, _, _, _)
SplitFrom(cs, sep, start, i) ==
    IF i + Len(sep) - 1 > Len(cs) THEN <<SubSeq(cs, start, Len(cs))>>
    ELSE IF SubSeq(cs, i, i + Len(sep) - 1) = sep
         THEN <<SubSeq(cs, start, i - 1)>> \o SplitFrom(cs, sep, i + Len(sep), i + Len(sep))
         ELSE SplitFrom(cs, sep, start, i + 1)

\* key.split( separator ): the separator is converted to a string, null to 'null'
split(cs, separator) ==
    SplitFrom(cs, IF separator = Null THEN <<"n", "u", "l", "l">> ELSE separator.cs, 1, 1)

-----------------------------------------------------------------------------
(* connector.js: the constructor and the ready/error lifecycle               *)

\* a || b
Or(a, b) == IF Truthy(a) THEN a ELSE b

DS_SCHEMA == Text(<<"D", "S", "_", "S", "C", "H", "E", "M", "A">>)

\* the option holding the user name: options.userName in part_003 (line 78),
\* options.user in src/connector.js (line 80)
UserOption(im) == IF im = "part_003" THEN "userName" ELSE "user"

\* what the constructor throws for these options, or "none"
ConstructorThrows(im, opts) ==
    CASE IsThrown(Prop(opts, "defaultLabel")) -> "TypeError"
      [] ~Truthy(Prop(opts, "connectionString")) -> "Missing setting 'connectionString'"
      [] ~Truthy(Prop(opts, UserOption(im))) -> "Missing setting 'user'"
      [] ~Truthy(Prop(opts, "password")) -> "Missing setting 'password'"
      [] im = "connector.js" /\ Or(Prop(opts, "ds_key"), Str("_ds_key")) = Str("id") ->
           "Cannot use the key 'id' as ds_key"
      [] OTHER -> "none"

\* the connector's fields when `new Connector( opts )` has returned
Constructed(im, opts) ==
    /\ impl = im
    /\ options = opts
    /\ ctor = "done"
    /\ isReady = FALSE
    /\ defaultLabel = Or(Prop(opts, "defaultLabel"), DS_SCHEMA)
    /\ splitChar = Or(Prop(opts, "splitChar"), Null)
    /\ db = TRUE
    /\ probe = "pending"
    /\ emitted = <<>>

\* new Connector( options )
Connector ==
    /\ ctor = "none"
    /\ isReady' = FALSE
    /\ IF IsThrown(Prop(options, "defaultLabel"))
       THEN UNCHANGED <<defaultLabel, splitChar>>
       ELSE /\ defaultLabel' = Or(Prop(options, "defaultLabel"), DS_SCHEMA)
            /\ splitChar' = Or(Prop(options, "splitChar"), Null)
    /\ IF ConstructorThrows(impl, options) # "none"
       THEN /\ ctor' = "threw"
            /\ UNCHANGED <<db, probe>>
       ELSE /\ ctor' = "done"
            /\ db' = TRUE
            /\ probe' = "pending"
    /\ UNCHANGED <<impl, options, emitted>>

\* the engine answers the 'return 1' probe: the promise resolves or rejects
ProbeSettles ==
    /\ probe = "pending"
    /\ \E ok \in BOOLEAN : probe' = IF ok THEN "resolved" ELSE "rejected"
    /\ UNCHANGED <<impl, options, ctor, isReady, defaultLabel, splitChar, db, emitted>>

\* .then( this._onCompleted ): emit() calls the 'ready' listeners, and a
\* listener that throws rejects the promise that .catch() is chained on
_onCompleted ==
    /\ probe = "resolved"
    /\ isReady' = TRUE
    /\ emitted' = Append(emitted, "ready")
    /\ \E listenerThrows \in BOOLEAN : probe' = IF listenerThrows THEN "rejected" ELSE "done"
    /\ UNCHANGED <<impl, options, ctor, defaultLabel, splitChar, db>>

\* .catch( this._onError )
_onError ==
    /\ probe = "rejected"
    /\ emitted' = Append(emitted, "error")
    /\ probe' = "done"
    /\ UNCHANGED <<impl, options, ctor, isReady, defaultLabel, splitChar, db>>

-----------------------------------------------------------------------------
(* connector.js: the key segmenter                                           *)

\* _getSegments with every element uppercased, whatever its index
GetSegmentsUppercaseAll(key) ==
    LET segments == split(key, splitChar) IN
    IF segments[1] = <<>> \/ Text(segments[1]) = defaultLabel
    THEN Null
    ELSE LET cased == [i \in 1..Len(segments) |-> toUpperCase(segments[i])] IN
         IF Len(cased) = 1
         THEN Arr(<<Text(defaultLabel.cs \o <<":">> \o cased[1])>>)
         ELSE Arr([i \in 1..Len(cased) |-> Text(cased[i])])

\* _getSegments without the test for an empty first element
GetSegmentsKeepsEmptyFirst(key) ==
    LET segments == split(key, splitChar) IN
    IF Text(segments[1]) = defaultLabel
    THEN Null
    ELSE LET cased == [i \in 1..Len(segments) |->
                         IF (i - 1) % 2 = 1 THEN segments[i] ELSE toUpperCase(segments[i])] IN
         IF Len(cased) = 1
         THEN Arr(<<Text(defaultLabel.cs \o <<":">> \o cased[1])>>)
         ELSE Arr([i \in 1..Len(cased) |-> Text(cased[i])])

_getSegments(key) ==
    LET segments == split(key, splitChar) IN
    IF segments[1] = <<>> \/ Text(segments[1]) = defaultLabel
    THEN Null
    ELSE LET cased == [i \in 1..Len(segments) |->
                         IF (i - 1) % 2 = 1 THEN segments[i] ELSE toUpperCase(segments[i])] IN
         IF Len(cased) = 1
         THEN Arr(<<Text(defaultLabel.cs \o <<":">> \o cased[1])>>)
         ELSE Arr([i \in 1..Len(cased) |-> Text(cased[i])])

-----------------------------------------------------------------------------
(* connector.js: the query synthesizer                                       *)

\* `${segments[1]}` when the key has one segment
UndefinedText == <<"u", "n", "d", "e", "f", "i", "n", "e", "d">>

NoQuery == [text |-> "none"]

\* The synthesized query text, by its clauses. anchor is the clause on
\*   (ds:__DS { _key: id })-[ds_r:__ds]->(n:label),
\* body is "SET" for
\*   SET ds += $__ds  SET ds_r.schema = keys($_rels)  SET n += $_props
\*   and, for each rel of rels,
\*   MERGE (n)-[:rel]->(REL_m)<-[:__ds]-(REL_ds) SET REL_ds += $_rels.rel
\* and otherwise MATCH (n)-[r]->(m) WHERE type(r) IN ds_r.schema followed by
\* "DETACH DELETE" n, m or by "RETURN" { __ds: properties(ds), _props:
\* properties(n), _rel_keys: collect(type(r)), _rel_vals: collect(properties(m)) }.
\* With three segments or more the text is empty.
_getQuery(action, segments, values) ==
    IF Len(segments.a) < 3
    THEN [text |-> "pattern",
          anchor |-> IF action = "SET" THEN "MERGE" ELSE "MATCH",
          id |-> IF Len(segments.a) >= 2 THEN segments.a[2].cs ELSE UndefinedText,
          label |-> segments.a[1].cs,
          body |-> IF Truthy(values) THEN "SET"
                   ELSE IF action = "DELETE" THEN "DETACH DELETE" ELSE "RETURN",
          rels |-> IF Truthy(values) /\ Prop(values, "_rels").t = "object"
                   THEN DOMAIN values.o["_rels"].o ELSE {}]
    ELSE [text |-> "empty"]

-----------------------------------------------------------------------------
(* The graph engine: what session.run( query, parameters ) does to the graph *)
(* for the queries _getQuery writes. An entity is the entity node n with its *)
(* anchor ds, the schema property of the edge between them, and its sibling  *)
(* nodes: sibs[rel].m is the node the rel edge leads to, sibs[rel].ds the    *)
(* node that points to m with a __ds edge.                                   *)

NoEntities == [e \in {} |-> Undefined]

\* a += b on the properties of a node
Merge(a, b) == [k \in DOMAIN a \cup DOMAIN b |-> IF k \in DOMAIN b THEN b[k] ELSE a[k]]

RECURSIVE SetToSeq(_)
SetToSeq(S) ==
    IF S = {} THEN <<>>
    ELSE LET x == CHOOSE y \in S : TRUE IN <<x>> \o SetToSeq(S \ {x})

\* the parameters the driver sends: keys that hold undefined are left out
Parameters(value) == JsonNested(value).o

\* the relations the MATCH (n)-[r]->(m) WHERE type(r) IN ds_r.schema finds
MatchedRels(q, g) ==
    LET e == <<q.label, q.id>> IN
    IF e \in DOMAIN g THEN DOMAIN g[e].sibs \cap g[e].schema ELSE {}

\* MERGE ... SET ...: fails when a parameter the text names is not sent
SetFails(q, params) == ~({"__ds", "_rels", "_props"} \subseteq DOMAIN params)

EntityAfterSet(q, params, g) ==
    LET e == <<q.label, q.id>>
        base == IF e \in DOMAIN g THEN g[e]
                ELSE [ds |-> [_key |-> Text(q.id)], schema |-> {},
                      props |-> NoKeys, sibs |-> NoKeys]
        old(r) == IF r \in DOMAIN base.sibs THEN base.sibs[r]
                  ELSE [m |-> NoKeys, ds |-> NoKeys] IN
    [ds |-> Merge(base.ds, params["__ds"].o),
     schema |-> DOMAIN params["_rels"].o,
     props |-> Merge(base.props, params["_props"].o),
     sibs |-> [r \in DOMAIN base.sibs \cup q.rels |->
                 IF r \in q.rels
                 THEN [m |-> old(r).m, ds |-> Merge(old(r).ds, params["_rels"].o[r].o)]
                 ELSE base.sibs[r]]]

GraphAfterSet(q, params, g) ==
    LET e == <<q.label, q.id>> IN
    [x \in DOMAIN g \cup {e} |-> IF x = e THEN EntityAfterSet(q, params, g) ELSE g[x]]

\* the rows of the RETURN: properties(ds) and properties(n) group the
\* aggregation, so that no match gives no row
RowsOfGet(q, g) ==
    LET e == <<q.label, q.id>>
        rs == SetToSeq(MatchedRels(q, g)) IN
    IF rs = <<>> THEN <<>>
    ELSE <<Obj([__ds |-> Obj(g[e].ds),
                _props |-> Obj(g[e].props),
                _rel_keys |-> Arr([i \in 1..Len(rs) |-> Str(rs[i])]),
                _rel_vals |-> Arr([i \in 1..Len(rs) |-> Obj(g[e].sibs[rs[i]].m)])])>>

\* DETACH DELETE n, m for every row matched
GraphAfterDelete(q, g) ==
    LET e == <<q.label, q.id>> IN
    IF MatchedRels(q, g) = {} THEN g ELSE [x \in DOMAIN g \ {e} |-> g[x]]

\* the nodes the DETACH DELETE leaves behind, detached from the entity
\* node: the anchor, the nodes that pointed to the siblings, and the siblings
\* whose relation the schema does not list. No query of _getQuery matches
\* them again, so their properties are not kept.
DebrisOfDelete(q, g) ==
    LET e == <<q.label, q.id>>
        rs == MatchedRels(q, g) IN
    IF rs = {} THEN {}
    ELSE {[node |-> "anchor", rel |-> "", entity |-> e]}
         \cup {[node |-> "sibling_ds", rel |-> r, entity |-> e] : r \in DOMAIN g[e].sibs}
         \cup {[node |-> "sibling", rel |-> r, entity |-> e] : r \in DOMAIN g[e].sibs \ rs}

-----------------------------------------------------------------------------
(* connector.js: set, get and delete, called by a single caller that issues  *)
(* a call when the call before it has finished                               *)

NoCall == [op |-> "none"]
NoChain == [s |-> "none"]

InvalidKeyPrefix == <<"I", "n", "v", "a", "l", "i", "d", " ", "k", "e", "y", " ">>

\* 'Invalid key ' + key
InvalidKey(key) == Text(InvalidKeyPrefix \o key)

Error(e) == [t |-> "error", e |-> e]

\* one invocation of the callback; value is Undefined when it is not passed
Callback(err, value) == [err |-> err, value |-> value]

\* a call as it is entered; prev is what the caller has done before it
NewCall(op, key, value) ==
    [op |-> op, key |-> key, value |-> value, query |-> NoQuery, stage |-> "done",
     session |-> "none", params |-> NoKeys, engine |-> "none", rows |-> <<>>,
     err |-> Null, fault |-> "none", cbs |-> <<>>, prev |-> chain]

\* what the caller has done last, once this call has finished: a set that
\* succeeded, or a set and then a delete of the same key that both succeeded
ChainAfter(c) ==
    LET ok == /\ c.engine = "ok"
              /\ c.cbs # <<>>
              /\ c.cbs[1].err = Null IN
    CASE c.op = "get" -> chain
      [] c.op = "set" -> IF ok THEN [s |-> "set", key |-> c.key, value |-> c.value]
                         ELSE NoChain
      [] OTHER -> IF ok /\ c.prev.s = "set" /\ c.prev.key = c.key
                  THEN [s |-> "set, delete", key |-> c.key, value |-> c.prev.value]
                  ELSE NoChain

\* a call has finished: nothing of it is left to run
Finish(c) ==
    /\ call' = NoCall
    /\ lastDone' = c
    /\ chain' = ChainAfter(c)

\* the part of set, get and delete from `let session = this._db.session()`
\* to the return: the session is opened and the query is handed to run(),
\* which may refuse an empty text at once by throwing
Issue(c, query) ==
    LET sent == [c EXCEPT !.query = query, !.session = "open"] IN
    \E refuses \in BOOLEAN :
      IF refuses /\ query.text = "empty"
      THEN Finish([sent EXCEPT !.fault = "run"])
      ELSE /\ call' = [sent EXCEPT !.stage = "sent", !.engine = "pending"]
           /\ UNCHANGED <<lastDone, chain>>

\* the key is refused: the callback is called with the error, and the call returns
Refuse(c) == Finish([c EXCEPT !.cbs = <<Callback(InvalidKey(c.key), Undefined)>>])

\* Connector.prototype.set, to its return
set(key, value) ==
    /\ ctor = "done"
    /\ call = NoCall
    /\ LET segments == _getSegments(key)
           c == NewCall("set", key, value)
           stored == transformValueForStorage(value) IN
       IF segments = Null
       THEN Refuse(c)
       ELSE IF IsThrown(stored)
       THEN Finish([c EXCEPT !.fault = "transform"])
       ELSE Issue([c EXCEPT !.params = Parameters(stored)], _getQuery("SET", segments, stored))
    /\ UNCHANGED <<graph, debris>>

\* Connector.prototype.get, to its return
get(key) ==
    /\ ctor = "done"
    /\ call = NoCall
    /\ LET segments == _getSegments(key)
           c == NewCall("get", key, Undefined) IN
       IF segments = Null
       THEN Refuse(c)
       ELSE Issue(c, _getQuery("GET", segments, Undefined))
    /\ UNCHANGED <<graph, debris>>

\* Connector.prototype.delete, to its return
delete(key) ==
    /\ ctor = "done"
    /\ call = NoCall
    /\ LET segments == _getSegments(key)
           c == NewCall("delete", key, Undefined) IN
       IF segments = Null
       THEN Refuse(c)
       ELSE Issue(c, _getQuery("DELETE", segments, Undefined))
    /\ UNCHANGED <<graph, debris>>

\* the engine runs the query and settles the promise of run(): the query
\* takes effect as a whole or, when the engine fails, not at all
run ==
    /\ call # NoCall
    /\ call.stage = "sent"
    /\ LET q == call.query IN
       \E fails \in BOOLEAN :
         IF fails \/ q.text = "empty" \/ (q.body = "SET" /\ SetFails(q, call.params))
         THEN /\ call' = [call EXCEPT !.stage = "rejected", !.engine = "failed",
                                      !.err = Error("Neo4jError")]
              /\ UNCHANGED <<graph, debris>>
         ELSE /\ call' = [call EXCEPT !.stage = "resolved", !.engine = "ok",
                                      !.rows = IF q.body = "RETURN" THEN RowsOfGet(q, graph)
                                               ELSE <<>>]
              /\ graph' = CASE q.body = "SET" -> GraphAfterSet(q, call.params, graph)
                            [] q.body = "DETACH DELETE" -> GraphAfterDelete(q, graph)
                            [] OTHER -> graph
              /\ debris' = IF q.body = "DETACH DELETE"
                           THEN debris \cup DebrisOfDelete(q, graph) ELSE debris
    /\ UNCHANGED <<lastDone, chain>>

\* a .then() handler that calls the callback and then closes the session: a
\* callback that throws rejects the promise the .catch() is chained on
ThenCallback(cb) ==
    \E throws \in BOOLEAN :
      LET c == [call EXCEPT !.cbs = Append(@, cb)] IN
      IF throws
      THEN /\ call' = [c EXCEPT !.stage = "rejected", !.err = Error("thrown by the callback")]
           /\ UNCHANGED <<lastDone, chain>>
      ELSE Finish([c EXCEPT !.stage = "done", !.session = "closed"])

\* a .catch() handler that calls the callback and then closes the session
CatchCallback(cb) ==
    \E throws \in BOOLEAN :
      LET c == [call EXCEPT !.cbs = Append(@, cb), !.stage = "done"] IN
      Finish(IF throws THEN c ELSE [c EXCEPT !.session = "closed"])

\* set: .then(() => { callback( null ); session.close() })
setThen ==
    /\ call # NoCall
    /\ call.op = "set" /\ call.stage = "resolved"
    /\ ThenCallback(Callback(Null, Undefined))
    /\ UNCHANGED <<graph, debris>>

\* set: .catch((err) => { callback( err ); session.close() })
setCatch ==
    /\ call # NoCall
    /\ call.op = "set" /\ call.stage = "rejected"
    /\ CatchCallback(Callback(call.err, Undefined))
    /\ UNCHANGED <<graph, debris>>

\* _.object( keys, values )
UnderscoreObject(keys, values) ==
    Obj([k \in {keys.a[i].s : i \in 1..Len(keys.a)} |->
           values.a[CHOOSE i \in 1..Len(keys.a) : keys.a[i].s = k]])

\* get: what the .then() handler makes of the first record, before the callback
Decoded(record) ==
    LET value == Del(Del(SetProp(record, "_rels",
                                 UnderscoreObject(record.o["_rel_keys"], record.o["_rel_vals"])),
                         "_rel_keys"), "_rel_vals")
        data == transformValueFromStorage(value) IN
    IF IsThrown(data) THEN data
    ELSE IF IsThrown(Prop(data, "_key")) THEN Prop(data, "_key")
    ELSE Del(data, "_key")

\* get: .then((result) => { ... })
getThen ==
    /\ call # NoCall
    /\ call.op = "get" /\ call.stage = "resolved"
    /\ IF call.rows = <<>>
       THEN ThenCallback(Callback(Null, Null))
       ELSE LET value == Decoded(call.rows[1]) IN
            IF IsThrown(value)
            THEN /\ call' = [call EXCEPT !.stage = "rejected", !.fault = "decode",
                                         !.err = Error(value.e)]
                 /\ UNCHANGED <<lastDone, chain>>
            ELSE IF value.t = "object" /\ DOMAIN value.o = {}
                 THEN ThenCallback(Callback(Null, Null))
                 ELSE ThenCallback(Callback(Null, value))
    /\ UNCHANGED <<graph, debris>>

\* get: .catch((err) => { callback( err, null ); session.close() })
getCatch ==
    /\ call # NoCall
    /\ call.op = "get" /\ call.stage = "rejected"
    /\ CatchCallback(Callback(call.err, Null))
    /\ UNCHANGED <<graph, debris>>

\* delete: .then(() => { callback( null ); session.close() })
deleteThen ==
    /\ call # NoCall
    /\ call.op = "delete" /\ call.stage = "resolved"
    /\ ThenCallback(Callback(Null, Undefined))
    /\ UNCHANGED <<graph, debris>>

\* delete: .catch((err) => { callback( err, null ); session.close() })
deleteCatch ==
    /\ call # NoCall
    /\ call.op = "delete" /\ call.stage = "rejected"
    /\ CatchCallback(Callback(call.err, Null))
    /\ UNCHANGED <<graph, debris>>

-----------------------------------------------------------------------------
(* Initial conditions shared by the specifications                           *)

\* the settings of the tests and of the README
TestSettings ==
    Obj([connectionString |-> Str("bolt://10.0.0.16"), userName |-> Str("neo4j"),
         password |-> Str("neo4j"), splitChar |-> Text(<<"/">>)])

\* the module is loaded and no connector has been constructed
NotConstructed(im, opts) ==
    /\ impl = im
    /\ options = opts
    /\ ctor = "none"
    /\ isReady = FALSE
    /\ defaultLabel = Undefined
    /\ splitChar = Undefined
    /\ db = FALSE
    /\ probe = "none"
    /\ emitted = <<>>

NoTransform == tKind = "none" /\ tTrace = <<>>
NoSegments == sKey = <<>> /\ sOut = Undefined

NoCalls ==
    /\ graph = NoEntities
    /\ debris = {}
    /\ call = NoCall
    /\ lastDone = NoCall
    /\ chain = NoChain

-----------------------------------------------------------------------------
(* The values the transforms are applied to                                  *)

MaxVersion == 1
MaxListLen == 2
MaxTransforms == 3

Scalars == {Str("John"), Str("Smith")}
PropNames == {"firstname", "lastname"}
RelNames == {"friends", "groups"}

SubFunctions(D, R) == UNION {[S -> R] : S \in SUBSET D}

RelDescriptors ==
    {Obj([k \in {"_v", "_count"} |-> IF k = "_v" THEN Num(v) ELSE Num(c)]) :
        v \in 0..MaxVersion, c \in 0..MaxVersion}

ListPayloads == {Arr(s) : s \in UNION {[1..n -> Scalars] : n \in 0..MaxListLen}}

\* object payloads without a _rels field
PlainPayloads == {Obj(p) : p \in SubFunctions(PropNames, Scalars)}

\* object payloads with a _rels field
RelPayloads ==
    {SetProp(p, "_rels", Obj(r)) :
        p \in PlainPayloads, r \in SubFunctions(RelNames, RelDescriptors)}

External(v, d) == Obj([k \in {"_v", "_d"} |-> IF k = "_v" THEN Num(v) ELSE d])

ExternalValues ==
    {External(v, d) : v \in 0..MaxVersion,
                      d \in ListPayloads \cup PlainPayloads \cup RelPayloads}

\* empty or absent inputs of transformValueFromStorage
AbsentValues == {Undefined, Null, EmptyObj}

Last(s) == s[Len(s)]

InitTransform ==
    /\ \/ /\ tKind = "external"
          /\ \E v \in ExternalValues : tTrace = <<v>>
       \/ /\ tKind = "storage"
          /\ \E s \in AbsentValues : tTrace = <<s>>
    /\ NoSegments
    /\ NotConstructed("part_003", Undefined)
    /\ NoCalls

\* the next transform to apply is transformValueForStorage
ForwardNext == (tKind = "external") = (Len(tTrace) % 2 = 1)

ApplyForStorage ==
    /\ Len(tTrace) <= MaxTransforms
    /\ ~IsThrown(Last(tTrace))
    /\ ForwardNext
    /\ tTrace' = Append(tTrace, transformValueForStorage(Last(tTrace)))
    /\ UNCHANGED <<tKind, segmentVars, connectorVars, opVars>>

ApplyFromStorage ==
    /\ Len(tTrace) <= MaxTransforms
    /\ ~IsThrown(Last(tTrace))
    /\ ~ForwardNext
    /\ tTrace' = Append(tTrace, transformValueFromStorage(Last(tTrace)))
    /\ UNCHANGED <<tKind, segmentVars, connectorVars, opVars>>

NextTransform == ApplyForStorage \/ ApplyFromStorage

SpecTransform == InitTransform /\ [][NextTransform]_vars

-----------------------------------------------------------------------------
(* The keys _getSegments is applied to                                       *)

MaxKeyLen == 3

KeyAlphabet == {"a", "B", "/"}

K_users_a == <<"u", "s", "e", "r", "s", "/", "a">>
K_bla == <<"b", "l", "a">>
K_a_b_c == <<"a", "/", "b", "/", "c">>
K_slash_a_b_c == <<"/", "a", "/", "b", "/", "c">>
K_USERS_123 == <<"U", "S", "E", "R", "S", "/", "1", "2", "3">>
K_DS_SCHEMA_a == DS_SCHEMA.cs \o <<"/", "a">>
K_anullb == <<"a", "n", "u", "l", "l", "b">>

\* the keys of the tests, a key under the default label and a key holding 'null'
TestKeys == {K_users_a, K_bla, K_a_b_c, K_slash_a_b_c, K_USERS_123, K_DS_SCHEMA_a, K_anullb}

KeyStrings == TestKeys \cup UNION {[1..n -> KeyAlphabet] : n \in 0..MaxKeyLen}

\* the test settings, with and without a separator and a default label
SegmentOptions ==
    {Obj([k \in (DOMAIN TestSettings.o \ {"splitChar"}) \cup DOMAIN extra |->
            IF k \in DOMAIN extra THEN extra[k] ELSE TestSettings.o[k]]) :
        extra \in [{"splitChar", "defaultLabel"} -> {Undefined, Text(<<"/">>), Text(<<"a">>)}]}

InitSegments ==
    /\ \E o \in SegmentOptions : Constructed("part_003", o)
    /\ sKey \in KeyStrings
    /\ sOut = Undefined
    /\ NoTransform
    /\ NoCalls

CallGetSegments ==
    /\ sOut = Undefined
    /\ sOut' = _getSegments(sKey)
    /\ UNCHANGED <<sKey, transformVars, connectorVars, opVars>>

NextSegments == CallGetSegments

SpecSegments == InitSegments /\ [][NextSegments]_vars

-----------------------------------------------------------------------------
(* The options the constructor is applied to                                 *)

OptionValues == {Undefined, Str(""), Str("neo4j")}

ConstructorOptions ==
    {Undefined, Str("gibberish")} \cup
    {Obj([k \in {j \in DOMAIN o : o[j] # Undefined} |-> o[k]]) :
        o \in [{"connectionString", "userName", "user", "password"} -> OptionValues]}
    \cup {TestSettings, SetProp(TestSettings, "ds_key", Str("id")),
          SetProp(Del(SetProp(TestSettings, "user", Str("neo4j")), "userName"),
                  "ds_key", Str("id"))}

InitConstruct ==
    /\ \E im \in {"part_003", "connector.js"}, o \in ConstructorOptions : NotConstructed(im, o)
    /\ NoTransform
    /\ NoSegments
    /\ NoCalls

NextConstruct ==
    \/ Connector /\ UNCHANGED <<transformVars, segmentVars, opVars>>
    \/ ProbeSettles /\ UNCHANGED <<transformVars, segmentVars, opVars>>
    \/ _onCompleted /\ UNCHANGED <<transformVars, segmentVars, opVars>>
    \/ _onError /\ UNCHANGED <<transformVars, segmentVars, opVars>>

SpecConstruct == InitConstruct /\ [][NextConstruct]_vars

-----------------------------------------------------------------------------
(* The connector in use: the calls of a single caller against a connector    *)
(* constructed from the test settings. The probe's handlers share no field   *)
(* with set, get and delete (none of them reads isReady); they are the       *)
(* actions of SpecConstruct.                                                 *)

K_u_1 == <<"u", "/", "1">>
K_U_1 == <<"U", "/", "1">>
K_slash_a == <<"/", "a">>

\* two keys of two segments that differ in case, two refused keys and a key
\* of three segments
CallKeys == {K_u_1, K_U_1, K_slash_a, K_DS_SCHEMA_a, K_a_b_c}

Descriptor(v, c) == Obj([_v |-> Num(v), _count |-> Num(c)])

\* object form with a relation, with an empty _rels and without _rels
V_John ==
    External(12, Obj([firstname |-> Str("John"),
                      _rels |-> Obj([friends |-> Descriptor(10, 20)])]))
V_Smith == External(13, Obj([lastname |-> Str("Smith"), _rels |-> EmptyObj]))
V_Plain == External(14, Obj([firstname |-> Str("John")]))

CallValues == {V_John, V_Smith, V_Plain}

\* the settings of the tests
CallOptions == {TestSettings}

Init ==
    /\ \E o \in CallOptions : Constructed("part_003", o)
    /\ NoCalls
    /\ NoTransform
    /\ NoSegments

Idle == UNCHANGED <<transformVars, segmentVars, connectorVars>>

Next ==
    \/ \E k \in CallKeys, v \in CallValues : set(k, v) /\ Idle
    \/ \E k \in CallKeys : get(k) /\ Idle
    \/ \E k \in CallKeys : delete(k) /\ Idle
    \/ run /\ Idle
    \/ setThen /\ Idle
    \/ setCatch /\ Idle
    \/ getThen /\ Idle
    \/ getCatch /\ Idle
    \/ deleteThen /\ Idle
    \/ deleteCatch /\ Idle

Spec == Init /\ [][Next]_vars

-----------------------------------------------------------------------------
(* Claims about the transforms, checked under SpecTransform                  *)

\* C2: for every well-formed external value v (list form, or object form with
\* or without a _rels field) transformValueFromStorage(transformValueForStorage(v))
\* deep-equals v, and for every storage value s the forward transform produces,
\* transformValueForStorage(transformValueFromStorage(s)) deep-equals s.
RoundTripLaw ==
    /\ (tKind = "external" /\ Len(tTrace) >= 3) => tTrace[3] = tTrace[1]
    /\ (tKind = "external" /\ Len(tTrace) >= 4) => tTrace[4] = tTrace[2]

\* the storage value C6 describes for the external value v
ClaimedStorageValue(v) ==
    LET d == v.o["_d"]
        rest == [k \in DOMAIN v.o \ {"_d"} |-> v.o[k]] IN
    IF d.t = "array"
    THEN Obj([k \in {"__dsList", "__ds"} |-> IF k = "__dsList" THEN d ELSE Obj(rest)])
    ELSE Obj([k \in {"_props", "_rels", "__ds"} |->
                CASE k = "_props" -> Obj([j \in DOMAIN d.o \ {"_rels"} |-> d.o[j]])
                  [] k = "_rels" -> IF "_rels" \in DOMAIN d.o THEN d.o["_rels"] ELSE EmptyObj
                  [] OTHER -> Obj(rest)])

\* C6: transformValueForStorage(v) is {__dsList: v._d, __ds: rest} for a list
\* _d and otherwise {_props: v._d without _rels, _rels: v._d._rels, __ds: rest},
\* with _rels an empty mapping when v._d has no _rels field.
ForStorageShape ==
    (tKind = "external" /\ Len(tTrace) >= 2) => tTrace[2] = ClaimedStorageValue(tTrace[1])

\* C7: transformValueFromStorage of an empty or absent input (undefined, null,
\* {}) returns undefined: it neither throws nor returns a malformed object.
AbsentInputYieldsNoValue ==
    (tKind = "storage" /\ Len(tTrace) >= 2) => tTrace[2] = Undefined

-----------------------------------------------------------------------------
(* Claims about the key segmenter, checked under SpecSegments                *)

\* the positions of key that hold the character c
Occurrences(key, c) == {i \in 1..Len(key) : key[i] = c}

SetMin(S) == CHOOSE x \in S : \A y \in S : x <= y
SetMax(S) == CHOOSE x \in S : \A y \in S : x >= y

\* the j-th element of key (counted from 1) when c separates the elements:
\* the characters that have j - 1 separators before them
KeyElement(key, c, j) ==
    LET at == {p \in 1..Len(key) :
                 key[p] # c /\ Cardinality({i \in 1..(p - 1) : key[i] = c}) = j - 1} IN
    IF at = {} THEN <<>> ELSE SubSeq(key, SetMin(at), SetMax(at))

ClaimedSegments(key, c) ==
    LET n == Cardinality(Occurrences(key, c)) + 1 IN
    IF n = 1
    THEN Arr(<<Text(defaultLabel.cs \o <<":">> \o toUpperCase(key))>>)
    ELSE Arr([j \in 1..n |->
                Text(IF j % 2 = 1 THEN toUpperCase(KeyElement(key, c, j))
                     ELSE KeyElement(key, c, j))])

SlashAndDefaultLabel == splitChar = Text(<<"/">>) /\ defaultLabel = DS_SCHEMA

\* C3: for every key whose first element is non-empty and differs from the
\* default label, _getSegments returns the elements of the key split on
\* splitChar, in the same order and number, even-indexed elements uppercased
\* and odd-indexed ones unchanged; a key of exactly one element yields the
\* single string defaultLabel + ':' + the uppercased element ('users/a' ->
\* ['USERS','a'], 'a/b/c' -> ['A','b','C'], 'bla' -> ['DS_SCHEMA:BLA']).
SegmentsAsClaimed ==
    (sOut # Undefined /\ splitChar # Null /\ Len(splitChar.cs) = 1) =>
        LET c == splitChar.cs[1] IN
        /\ (KeyElement(sKey, c, 1) # <<>> /\ Text(KeyElement(sKey, c, 1)) # defaultLabel)
              => sOut = ClaimedSegments(sKey, c)
        /\ (SlashAndDefaultLabel /\ sKey = K_users_a)
              => sOut = Arr(<<Text(<<"U", "S", "E", "R", "S">>), Text(<<"a">>)>>)
        /\ (SlashAndDefaultLabel /\ sKey = K_a_b_c)
              => sOut = Arr(<<Text(<<"A">>), Text(<<"b">>), Text(<<"C">>)>>)
        /\ (SlashAndDefaultLabel /\ sKey = K_bla)
              => sOut = Arr(<<Text(DS_SCHEMA.cs \o <<":", "B", "L", "A">>)>>)

\* _getSegments has returned three segments for 'a/b/c', and one for 'bla'
SegmentsWitness ==
    /\ SlashAndDefaultLabel
    /\ sKey = K_a_b_c
    /\ sOut # Undefined /\ sOut # Null
    /\ Len(sOut.a) = 3

\* C12: with no separator configured (this._splitChar is null), _getSegments
\* returns null for every key, the result for which set, get and delete call
\* back with 'Invalid key ' + key and issue no engine request.
NoSeparatorRefusesKey ==
    (splitChar = Null /\ sOut # Undefined) => sOut = Null

-----------------------------------------------------------------------------
(* Claims about set, get and delete, checked under Spec                      *)

\* the key's first element is empty or is the default label
RefusedKey(key) ==
    LET first == KeyElement(key, splitChar.cs[1], 1) IN
    first = <<>> \/ Text(first) = defaultLabel

TwoSegments(key) == Cardinality(Occurrences(key, splitChar.cs[1])) = 1

\* the entity a key of two segments addresses
EntityOfKey(key) ==
    <<toUpperCase(KeyElement(key, splitChar.cs[1], 1)), KeyElement(key, splitChar.cs[1], 2)>>

\* the relation names of an object-form external value
RelsOf(v) ==
    IF "_rels" \in DOMAIN v.o["_d"].o THEN DOMAIN v.o["_d"].o["_rels"].o ELSE {}

\* the call that finished last is a get(k) whose request the engine answered,
\* and the caller's last call before it was a set(k, v) that called back with null
GetAfterSet ==
    /\ lastDone.op = "get"
    /\ lastDone.prev.s = "set"
    /\ lastDone.prev.key = lastDone.key
    /\ TwoSegments(lastDone.key)
    /\ lastDone.engine = "ok"

\* C1: once set(k, v) has called back with null for a key of two segments and
\* an object-form value v (with any number of _rels entries), an immediately
\* following get(k) calls back with (null, v') where v' deep-equals v.
SetThenGetReturnsValue ==
    GetAfterSet => lastDone.cbs[1] = Callback(Null, lastDone.prev.value)

\* C4: set, get and delete with a key whose first element is empty or is the
\* default label call back before they return, with 'Invalid key ' + key as
\* the error; no query is built, no session opened, nothing sent to the engine.
InvalidKeyRefusedAtOnce ==
    /\ call # NoCall => ~RefusedKey(call.key)
    /\ (lastDone # NoCall /\ RefusedKey(lastDone.key)) =>
          /\ lastDone.cbs = <<Callback(InvalidKey(lastDone.key), Undefined)>>
          /\ lastDone.query = NoQuery
          /\ lastDone.session = "none"
          /\ lastDone.engine = "none"

\* a delete with a key under the default label has been refused
InvalidKeyWitness ==
    /\ lastDone.op = "delete"
    /\ lastDone.key = K_DS_SCHEMA_a
    /\ lastDone.cbs # <<>>
    /\ graph # NoEntities

\* C5: get(k) on a valid key for which the engine returns no row calls back
\* with (null, null); not found is never reported as an error, and the error
\* argument is non-null only when the engine call or the decoding failed.
NotFoundIsNotAnError ==
    (lastDone.op = "get" /\ ~RefusedKey(lastDone.key)) =>
        /\ (lastDone.engine = "ok" /\ lastDone.rows = <<>>) =>
              /\ lastDone.cbs # <<>>
              /\ \A i \in 1..Len(lastDone.cbs) : lastDone.cbs[i] = Callback(Null, Null)
        /\ \A i \in 1..Len(lastDone.cbs) :
              lastDone.cbs[i].err # Null =>
                  (lastDone.engine = "failed" \/ lastDone.fault = "decode")

\* C8: after a set(k, v) that succeeded for a key of two segments, a delete(k)
\* that succeeds removes the entity node and every sibling node directly
\* related to it, whether v has relations or none, so that a following get(k)
\* calls back with (null, null); nothing further away is removed.
DeleteRemovesEntity ==
    /\ ( /\ lastDone.op = "delete"
         /\ call = NoCall
         /\ chain.s = "set, delete"
         /\ chain.key = lastDone.key
         /\ TwoSegments(lastDone.key) ) =>
            LET e == EntityOfKey(lastDone.key) IN
            /\ e \notin DOMAIN graph
            /\ \A r \in RelsOf(chain.value) :
                  /\ [node |-> "sibling", rel |-> r, entity |-> e] \notin debris
                  /\ [node |-> "sibling_ds", rel |-> r, entity |-> e] \in debris
    /\ ( /\ lastDone.op = "get"
         /\ lastDone.prev.s = "set, delete"
         /\ lastDone.prev.key = lastDone.key
         /\ lastDone.engine = "ok" ) =>
            lastDone.cbs[1] = Callback(Null, Null)

-----------------------------------------------------------------------------
(* Claims about sessions and callbacks, checked under Spec                   *)

\* C11: every set, get or delete with a valid key that hands its query to the
\* engine has opened one session, and once the engine request has settled
\* (success or failure) and the handlers have run, that session is closed,
\* also when decoding the result or the callback throws.
SessionClosedWhenSettled ==
    (lastDone # NoCall /\ ~RefusedKey(lastDone.key) /\ lastDone.engine # "none") =>
        lastDone.session = "closed"

\* C13: every set, get or delete that has finished has called its callback
\* exactly once, whatever the key (refused, or of one, two, three or more
\* segments) and whatever the engine's outcome, also when the callback throws
\* while it is called on the success path; and no call in progress has called
\* it more than once.
CallbackExactlyOnce ==
    /\ lastDone # NoCall => Len(lastDone.cbs) = 1
    /\ call # NoCall => Len(call.cbs) <= 1

\* the value a get has called back with has the properties and the relation
\* names of v and no others
SameShape(got, v) ==
    /\ got.t = "object"
    /\ DOMAIN got.o = DOMAIN v.o
    /\ got.o["_v"] = v.o["_v"]
    /\ got.o["_d"].t = "object"
    /\ DOMAIN got.o["_d"].o = DOMAIN v.o["_d"].o
    /\ \A p \in DOMAIN v.o["_d"].o \ {"_rels"} : got.o["_d"].o[p] = v.o["_d"].o[p]
    /\ DOMAIN got.o["_d"].o["_rels"].o = DOMAIN v.o["_d"].o["_rels"].o

\* C14: after any history of successful set and delete calls on a key of two
\* segments that ends with set(k, v), a get(k) that finds the entity calls back
\* with the version, the properties and the relation names of v: nothing
\* written by an earlier set and absent from v is returned.
LastWriteWins ==
    (GetAfterSet /\ lastDone.rows # <<>>) =>
        /\ lastDone.cbs[1].err = Null
        /\ SameShape(lastDone.cbs[1].value, lastDone.prev.value)

\* the rows the engine would return for get(key) on graph g
RowsOfKey(key, g) == RowsOfGet(_getQuery("GET", _getSegments(key), Undefined), g)

\* C15: for two different valid keys of two segments k1 and k2, the engine's
\* execution of a set(k1, v) or a delete(k1) leaves the result of get(k2)
\* unchanged: different key strings never address the same entity.
KeyIsolation ==
    [][\A k2 \in CallKeys :
          ( /\ call # NoCall
            /\ call.stage = "sent"
            /\ call.op \in {"set", "delete"}
            /\ TwoSegments(call.key) /\ ~RefusedKey(call.key)
            /\ TwoSegments(k2) /\ ~RefusedKey(k2)
            /\ k2 # call.key )
          => RowsOfKey(k2, graph') = RowsOfKey(k2, graph)]_vars

-----------------------------------------------------------------------------
(* Claims about the constructor and the probe, checked under SpecConstruct   *)

Emitted(e) == Cardinality({i \in 1..Len(emitted) : emitted[i] = e})

\* C9: a connector starts with isReady = false, and its probe ends in one of
\* two outcomes: isReady true and 'ready' emitted once, or 'error' emitted
\* once and isReady false. 'ready' and 'error' are never both emitted,
\* neither is emitted twice, and isReady never goes back to false.
ProbeHasOneOutcome ==
    /\ (ctor = "done" /\ probe = "pending") => (~isReady /\ emitted = <<>>)
    /\ Emitted("ready") <= 1
    /\ Emitted("error") <= 1
    /\ ~(Emitted("ready") = 1 /\ Emitted("error") = 1)
    /\ Emitted("ready") = 1 => isReady
    /\ (Emitted("error") = 1 /\ Emitted("ready") = 0) => ~isReady
    /\ probe = "done" => Len(emitted) = 1

OptionGiven(k) == options.t = "object" /\ k \in DOMAIN options.o /\ Truthy(options.o[k])

\* C10: constructing a connector with connectionString, the user name
\* (userName/user) or password missing throws, before the driver is created
\* and the probe session opened, so that no event follows; with all three
\* present, given as in the README and test settings, it does not throw.
ConstructionFailsFast ==
    /\ ( /\ ctor # "none"
         /\ \/ ~OptionGiven("connectionString")
            \/ ~OptionGiven("userName") /\ ~OptionGiven("user")
            \/ ~OptionGiven("password") ) => ctor = "threw"
    /\ ctor = "threw" => (~db /\ probe = "none" /\ emitted = <<>>)
    /\ (ctor # "none" /\ options = TestSettings) => ctor = "done"

====
